---- MODULE Spec2Model ----
(***************************************************************************)
(* Model of package junos (src/junos.go): the Junos session constructor    *)
(* NewSession and the request/reply methods of *Junos.                     *)
(*                                                                         *)
(* Go strings whose characters the code inspects are sequences of          *)
(* one-character strings.  A request payload is the sequence of the        *)
(* fmt.Sprintf pieces the code concatenates: each piece records the        *)
(* template (f) and the string (s) or integer (n) substituted into it.     *)
(* The transport (netconf.Session.Exec), encoding/xml and the file system  *)
(* are external: their answers are inputs of the actions.                  *)
(***************************************************************************)
EXTENDS Integers, Sequences, FiniteSets, TLC

VARIABLES
    proc,      \* "running" | "exited" (log.Fatal) | "panicked" (run-time panic)
    session,   \* the *Junos value NewSession returned, or NoSession
    op,        \* name of the last call
    args,      \* its arguments
    sent,      \* the payloads it handed to Session.Exec, in order
    replies,   \* the replies Exec gave, in order
    ret,       \* what it returned: [val |-> ..., err |-> ...]
    calls      \* how many methods have been called on the session

vars == <<proc, session, op, args, sent, replies, ret, calls>>

(***************************************************************************)
(* Bounds of the model.                                                    *)
(***************************************************************************)
MaxCalls == 2        \* method calls made on one session
MaxEngines == 2      \* multi-routing-engine items in a software reply
MaxFaults == 2       \* entries of reply.Errors / of commit-results
MaxDepth == 3        \* components of a GetConfig section path
MaxPathLen == 3      \* characters of a Files path
MaxOutputLen == 2    \* characters of a directory-list output field

(***************************************************************************)
(* Strings.                                                                *)
(***************************************************************************)
StringsOver(alphabet, n) == UNION {[1..k -> alphabet] : k \in 0..n}

SeqsUpTo(S, n) == UNION {[1..k -> S] : k \in 0..n}

Max(S) == CHOOSE x \in S : \A y \in S : y <= x

\* strings.Contains(s, sub)
Contains(s, sub) ==
    \E i \in 1..(Len(s) - Len(sub) + 1) : SubSeq(s, i, i + Len(sub) - 1) = sub

RECURSIVE TrimLeft(_, _)
TrimLeft(s, cutset) ==
    IF s # <<>> /\ Head(s) \in cutset THEN TrimLeft(Tail(s), cutset) ELSE s

RECURSIVE TrimRight(_, _)
\* strings.TrimRight(s, cutset)
TrimRight(s, cutset) ==
    IF s # <<>> /\ s[Len(s)] \in cutset
    THEN TrimRight(SubSeq(s, 1, Len(s) - 1), cutset)
    ELSE s

\* strings.Trim(s, cutset)
Trim(s, cutset) == TrimRight(TrimLeft(s, cutset), cutset)

RECURSIVE Split(_, _)
\* strings.Split(s, sep) for a one-character separator
Split(s, sep) ==
    IF \E i \in 1..Len(s) : s[i] = sep
    THEN LET i == CHOOSE k \in 1..Len(s) :
                      s[k] = sep /\ \A m \in 1..(k - 1) : s[m] # sep
         IN  <<SubSeq(s, 1, i - 1)>> \o Split(SubSeq(s, i + 1, Len(s)), sep)
    ELSE <<s>>

RECURSIVE Join(_, _)
\* strings.Join(elems, sep)
Join(elems, sep) ==
    IF elems = <<>> THEN <<>>
    ELSE IF Len(elems) = 1 THEN elems[1]
    ELSE elems[1] \o sep \o Join(Tail(elems), sep)

RECURSIVE RemoveAll(_, _)
\* strings.Replace(s, c, "", -1) for a one-character c
RemoveAll(s, c) ==
    IF s = <<>> THEN <<>>
    ELSE IF Head(s) = c THEN RemoveAll(Tail(s), c)
    ELSE <<Head(s)>> \o RemoveAll(Tail(s), c)

UpperChar(c) ==
    CASE c = "m" -> "M"
      [] c = "x" -> "X"
      [] c = "s" -> "S"
      [] c = "r" -> "R"
      [] OTHER -> c

\* strings.ToUpper(s)
ToUpper(s) == [i \in 1..Len(s) |-> UpperChar(s[i])]

(***************************************************************************)
(* Errors, replies, payload pieces.                                        *)
(***************************************************************************)
\* a nil error
NoError == [origin |-> "nil", text |-> <<>>]

\* errors.New(text)
NewError(text) == [origin |-> "errors.New", text |-> text]

\* the error xml.Unmarshal returns
UnmarshalError == [origin |-> "xml.Unmarshal", text |-> <<"x","m","l">>]

\* the error Session.Exec returns
ExecError == [origin |-> "Exec", text |-> <<"E","O","F">>]

\* a nil pointer / no value
Nil == [kind |-> "nil"]

NoSession == [kind |-> "none"]

\* fmt.Sprintf(f), fmt.Sprintf(f, s), fmt.Sprintf(f, n)
Lit(f) == <<[f |-> f, s |-> <<>>, n |-> 0]>>
Fs(f, s) == <<[f |-> f, s |-> s, n |-> 0]>>
Fd(f, n) == <<[f |-> f, s |-> <<>>, n |-> n]>>

\* the reply of a failed Exec (reply is nil, err is set)
ExecFailed ==
    [err |-> ExecError, Errors |-> <<>>, Data |-> [root |-> "", multi |-> FALSE]]

\* the reply of a successful Exec
Reply(faults, data) == [err |-> NoError, Errors |-> faults, Data |-> data]

\* reply.Data == ""
EmptyData == [root |-> "", multi |-> FALSE]

\* reply.Data that is not well-formed XML
Malformed == [root |-> "#malformed", multi |-> FALSE]

\* xml.Unmarshal(data, &v) fails: no element, bad XML, or a root element other
\* than the XMLName tag of v ("*" when v has none)
UnmarshalFails(data, xmlName) ==
    \/ data.root \in {"", "#malformed"}
    \/ xmlName # "*" /\ data.root # xmlName

\* "if reply.Errors != nil { for _, m := range reply.Errors { return ... } }"
HasFault(reply) == reply.Errors # <<>>
FirstFault(reply) == NewError(reply.Errors[1].Message)

(***************************************************************************)
(* NewSession                                                              *)
(***************************************************************************)
NoNewline(s, a, b) == \A k \in a..b : s[k] # "\n"

\* positions of a "[" the pattern ^.*\[(.*)\] can match at
RexOpens(s) ==
    {i \in 1..Len(s) :
        /\ s[i] = "["
        /\ NoNewline(s, 1, i - 1)
        /\ \E j \in (i + 1)..Len(s) : s[j] = "]" /\ NoNewline(s, i + 1, j - 1)}

\* rex.FindStringSubmatch(s): <<>> for nil, else <<whole match, group 1>>
FindStringSubmatch(s) ==
    IF RexOpens(s) = {} THEN <<>>
    ELSE LET i == Max(RexOpens(s))
             j == Max({k \in (i + 1)..Len(s) :
                          s[k] = "]" /\ NoNewline(s, i + 1, k - 1)})
         IN  <<SubSeq(s, 1, j), SubSeq(s, i + 1, j - 1)>>

\* facts.PackageInfo[0].SoftwareVersion[0] and version[1] are in range
EngineOk(e) ==
    /\ e.PackageInfo # <<>>
    /\ e.PackageInfo[1].SoftwareVersion # <<>>
    /\ FindStringSubmatch(e.PackageInfo[1].SoftwareVersion[1]) # <<>>

\* EngineFacts without strings.ToUpper
EngineFactsNoUpper(e) ==
    [Model   |-> e.Platform,
     Version |-> FindStringSubmatch(e.PackageInfo[1].SoftwareVersion[1])[2]]

\* RoutingEngine{Model: model, Version: version[1]}
EngineFacts(e) ==
    [Model   |-> ToUpper(e.Platform),
     Version |-> FindStringSubmatch(e.PackageInfo[1].SoftwareVersion[1])[2]]

Returned(s, e) == [outcome |-> "returned", session |-> s, err |-> e]
Fatal == [outcome |-> "exited", session |-> NoSession, err |-> NoError]
Panic == [outcome |-> "panicked", session |-> NoSession, err |-> NoError]

Junos(hostname, n, platform) ==
    [kind |-> "junos", Hostname |-> hostname, RoutingEngines |-> n,
     Platform |-> platform]

\* NewSessionMulti with a loop that stops one engine early
NewSessionMultiShort(data) ==
    IF UnmarshalFails(data, "multi-routing-engine-results")
    THEN Returned(NoSession, UnmarshalError)
    ELSE LET RE == data.items
             numRE == Len(RE)
         IN  IF numRE = 0 THEN Panic
             ELSE IF \E i \in 1..numRE : ~EngineOk(RE[i]) THEN Panic
             ELSE Returned(Junos(RE[1].Hostname, numRE,
                                 [i \in 1..(numRE - 1) |-> EngineFacts(RE[i])]),
                           NoError)

\* the multi-engine branch (lines 562-585)
NewSessionMulti(data) ==
    IF UnmarshalFails(data, "multi-routing-engine-results")
    THEN Returned(NoSession, UnmarshalError)
    ELSE LET RE == data.items
             numRE == Len(RE)
         IN  IF numRE = 0 THEN Panic
             ELSE IF \E i \in 1..numRE : ~EngineOk(RE[i]) THEN Panic
             ELSE Returned(Junos(RE[1].Hostname, numRE,
                                 [i \in 1..numRE |-> EngineFacts(RE[i])]),
                           NoError)

\* the single-engine branch (lines 587-604)
NewSessionSingle(data) ==
    IF UnmarshalFails(data, "software-information")
    THEN Returned(NoSession, UnmarshalError)
    ELSE LET facts == data.engine
         IN  IF ~EngineOk(facts) THEN Panic
             ELSE Returned(Junos(facts.Hostname, 1, <<EngineFacts(facts)>>),
                           NoError)

\* the outcome of NewSession for the outcome of the dial and the reply to
\* <get-software-information/>
NewSessionResult(dialOk, reply) ==
    IF ~dialOk THEN Fatal
    ELSE IF reply.err # NoError THEN Returned(NoSession, reply.err)
    ELSE IF HasFault(reply) THEN Returned(NoSession, FirstFault(reply))
    ELSE IF reply.Data.multi THEN NewSessionMulti(reply.Data)
    ELSE NewSessionSingle(reply.Data)

(***************************************************************************)
(* The RPC templates (var block, lines 17-51).                             *)
(***************************************************************************)
rpcCommand == "<command format=\"text\">%s</command>"
rpcCommandXML == "<command format=\"xml\">%s</command>"
rpcCommit == "<commit-configuration/>"
rpcCommitAt == "<commit-configuration><at-time>%s</at-time></commit-configuration>"
rpcCommitCheck == "<commit-configuration><check/></commit-configuration>"
rpcCommitConfirm == "<commit-configuration><confirmed/><confirm-timeout>%d</confirm-timeout></commit-configuration>"
rpcConfigFileSet == "<load-configuration action=\"set\" format=\"text\"><configuration-set>%s</configuration-set></load-configuration>"
rpcConfigFileText == "<load-configuration format=\"text\"><configuration-text>%s</configuration-text></load-configuration>"
rpcConfigFileXML == "<load-configuration format=\"xml\"><configuration>%s</configuration></load-configuration>"
rpcConfigURLSet == "<load-configuration action=\"set\" format=\"text\" url=\"%s\"/>"
rpcConfigURLText == "<load-configuration format=\"text\" url=\"%s\"/>"
rpcConfigURLXML == "<load-configuration format=\"xml\" url=\"%s\"/>"
rpcConfigStringSet == "<load-configuration action=\"set\" format=\"text\"><configuration-set>%s</configuration-set></load-configuration>"
rpcConfigStringText == "<load-configuration format=\"text\"><configuration-text>%s</configuration-text></load-configuration>"
rpcConfigStringXML == "<load-configuration format=\"xml\"><configuration>%s</configuration></load-configuration>"
rpcGetRollbackCompare == "<get-rollback-information><rollback>0</rollback><compare>%d</compare><format>text</format></get-rollback-information>"
rpcLock == "<lock><target><candidate/></target></lock>"
rpcRescueConfig == "<load-configuration rescue=\"rescue\"/>"
rpcRescueDelete == "<request-delete-rescue-configuration/>"
rpcRescueSave == "<request-save-rescue-configuration/>"
rpcRollbackConfig == "<load-configuration rollback=\"%d\"/>"
rpcUnlock == "<unlock><target><candidate/></target></unlock>"
rpcVersion == "<get-software-information/>"
rpcReboot == "<request-reboot/>"
rpcCommitHistory == "<get-commit-information/>"
rpcFileList == "<file-list><detail/><path>%s</path></file-list>"

\* the format and syntax names the code compares against
TEXT == <<"t","e","x","t">>
XML == <<"x","m","l">>
SET == <<"s","e","t">>
FULL == <<"f","u","l","l">>
RESCUE == <<"r","e","s","c","u","e">>
DELETE == <<"d","e","l","e","t","e">>
SAVE == <<"s","a","v","e">>

(***************************************************************************)
(* The methods of *Junos.  Each operator gives, for the arguments and the  *)
(* replies Exec will give, the payloads sent, the replies consumed and the *)
(* values returned.                                                        *)
(***************************************************************************)
Result(val, err) == [val |-> val, err |-> err]

Outcome(payloads, rs, r) == [sent |-> payloads, replies |-> rs, ret |-> r]

\* the diagnostic of RunCommand and Files
errMessage == <<"N", "o", " ", "o", "u", "t", "p", "u", "t", " ", "a", "v",
        "a", "i", "l", "a", "b", "l", "e", ".", " ", "P", "l", "e", "a", "s",
        "e", " ", "c", "h", "e", "c", "k", " ", "t", "h", "e", " ", "s", "y",
        "n", "t", "a", "x", " ", "o", "f", " ", "y", "o", "u", "r", " ", "c",
        "o", "m", "m", "a", "n", "d", ".">>

\* string results
Str(text) == [kind |-> "string", text |-> text]
EmptyString == Str(<<>>)
\* output.Config of commandXML: the inner XML of the reply's root element
InnerXML(data) == [kind |-> "innerxml", data |-> data]
RawData(data) == [kind |-> "raw", data |-> data]

RunCommandReturn(format, reply) ==
    IF reply.err # NoError THEN Result(Str(errMessage), reply.err)
    ELSE IF HasFault(reply) THEN Result(Str(errMessage), FirstFault(reply))
    ELSE IF reply.Data.root = "" THEN Result(Str(errMessage), NoError)
    ELSE IF format = TEXT
         THEN IF UnmarshalFails(reply.Data, "*")
              THEN Result(EmptyString, UnmarshalError)
              ELSE Result(InnerXML(reply.Data), NoError)
    ELSE Result(RawData(reply.Data), NoError)

RunCommandCall(cmd, format, reply) ==
    LET command == IF format = XML THEN Fs(rpcCommandXML, cmd)
                   ELSE Fs(rpcCommand, cmd)
    IN  Outcome(<<command>>, <<reply>>, RunCommandReturn(format, reply))

CommitHistoryReturn(reply) ==
    IF reply.err # NoError THEN Result(Nil, reply.err)
    ELSE IF HasFault(reply) THEN Result(Nil, FirstFault(reply))
    ELSE IF reply.Data.root = ""
         THEN Result(Nil, NewError(<<"c","o","u","l","d"," ","n","o","t"," ",
                                     "l","o","a","d"," ","c","o","m","m","i","t",
                                     " ","h","i","s","t","o","r","y">>))
    ELSE IF UnmarshalFails(reply.Data, "*") THEN Result(Nil, UnmarshalError)
    ELSE Result([kind |-> "CommitHistory", Entries |-> reply.Data.entries],
                NoError)

CommitHistoryCall(reply) ==
    Outcome(<<Lit(rpcCommitHistory)>>, <<reply>>, CommitHistoryReturn(reply))

\* fmt.Sprintf("[%s]\n    %s\nError: %s", Trim(Path), Trim(Element), Trim(Message))
CommitMessage(m) ==
    LET cutset == {"[", "\r", "\n", "]"}
    IN  <<"[">> \o Trim(m.Path, cutset) \o <<"]", "\n", " ", " ", " ", " ">>
        \o Trim(m.Element, cutset)
        \o <<"\n", "E", "r", "r", "o", "r", ":", " ">>
        \o Trim(m.Message, cutset)

\* CommitReturn ranging to the last rpc-error
CommitReturnLast(reply) ==
    IF reply.err # NoError THEN reply.err
    ELSE IF HasFault(reply) THEN FirstFault(reply)
    ELSE IF UnmarshalFails(reply.Data, "commit-results") THEN UnmarshalError
    ELSE IF reply.Data.errors # <<>>
         THEN NewError(CommitMessage(reply.Data.errors[Len(reply.Data.errors)]))
    ELSE NoError

\* what Commit, CommitAt, CommitCheck and CommitConfirm return for the reply
\* to their request (the four bodies are the same after Exec)
CommitReturn(reply) ==
    IF reply.err # NoError THEN reply.err
    ELSE IF HasFault(reply) THEN FirstFault(reply)
    ELSE IF UnmarshalFails(reply.Data, "commit-results") THEN UnmarshalError
    ELSE IF reply.Data.errors # <<>>
         THEN NewError(CommitMessage(reply.Data.errors[1]))
    ELSE NoError

CommitCall(reply) ==
    Outcome(<<Lit(rpcCommit)>>, <<reply>>, Result(Nil, CommitReturn(reply)))

CommitAtCall(time, reply) ==
    Outcome(<<Fs(rpcCommitAt, time)>>, <<reply>>,
            Result(Nil, CommitReturn(reply)))

\* CommitCheck sending the plain commit request
CommitCheckCallCommits(reply) ==
    Outcome(<<Lit(rpcCommit)>>, <<reply>>, Result(Nil, CommitReturn(reply)))

CommitCheckCall(reply) ==
    Outcome(<<Lit(rpcCommitCheck)>>, <<reply>>,
            Result(Nil, CommitReturn(reply)))

CommitConfirmCall(delay, reply) ==
    Outcome(<<Fd(rpcCommitConfirm, delay)>>, <<reply>>,
            Result(Nil, CommitReturn(reply)))

ConfigDiffReturn(reply) ==
    IF reply.err # NoError THEN Result(EmptyString, reply.err)
    ELSE IF HasFault(reply) THEN Result(EmptyString, FirstFault(reply))
    ELSE IF UnmarshalFails(reply.Data, "rollback-information")
         THEN Result(EmptyString, UnmarshalError)
    ELSE Result(Str(reply.Data.output), NoError)

ConfigDiffCall(compare, reply) ==
    Outcome(<<Fd(rpcGetRollbackCompare, compare)>>, <<reply>>,
            ConfigDiffReturn(reply))

\* "for i := 0; i < nSecs; i++ { command += Sprintf("<%s>", secs[i]) }"
RECURSIVE OpenTags(_, _, _)
OpenTags(secs, i, nSecs) ==
    IF i < nSecs
    THEN Fs("<%s>", secs[i + 1]) \o OpenTags(secs, i + 1, nSecs)
    ELSE <<>>

\* CloseTags counting up: the opened tags closed in path order
RECURSIVE CloseTagsForward(_, _)
CloseTagsForward(secs, j) ==
    IF j >= 0
    THEN CloseTagsForward(secs, j - 1) \o Fs("</%s>", secs[j + 1])
    ELSE <<>>

\* "for j := nSecs - 1; j >= 0; j-- { command += Sprintf("</%s>", secs[j]) }"
RECURSIVE CloseTags(_, _)
CloseTags(secs, j) ==
    IF j >= 0
    THEN Fs("</%s>", secs[j + 1]) \o CloseTags(secs, j - 1)
    ELSE <<>>

\* the command GetConfig builds (indices are Go's, sequences start at 1)
GetConfigCommand(section, format) ==
    LET secs == Split(section, ">")
        nSecs == Len(secs) - 1
        head == Fs("<get-configuration format=\"%s\"><configuration>", format)
    IN  IF section = FULL
        THEN head \o Lit("</configuration></get-configuration>")
        ELSE IF nSecs >= 0
        THEN head \o OpenTags(secs, 0, nSecs) \o Fs("<%s/>", secs[nSecs + 1])
             \o CloseTags(secs, nSecs - 1)
             \o Lit("</configuration></get-configuration>")
        ELSE head

GetConfigReturn(format, reply) ==
    IF reply.err # NoError THEN Result(EmptyString, reply.err)
    ELSE IF HasFault(reply) THEN Result(EmptyString, FirstFault(reply))
    ELSE IF format = TEXT
         THEN IF UnmarshalFails(reply.Data, "*")
              THEN Result(EmptyString, UnmarshalError)
              ELSE Result(InnerXML(reply.Data), NoError)
    ELSE Result(RawData(reply.Data), NoError)

GetConfigCall(section, format, reply) ==
    Outcome(<<GetConfigCommand(section, format)>>, <<reply>>,
            GetConfigReturn(format, reply))

\* Lock, Unlock, Reboot and Rescue: Exec, then the first fault or nil
PlainReturn(reply) ==
    IF reply.err # NoError THEN Result(Nil, reply.err)
    ELSE IF HasFault(reply) THEN Result(Nil, FirstFault(reply))
    ELSE Result(Nil, NoError)

LockCall(reply) == Outcome(<<Lit(rpcLock)>>, <<reply>>, PlainReturn(reply))

UnlockCall(reply) == Outcome(<<Lit(rpcUnlock)>>, <<reply>>, PlainReturn(reply))

RebootCall(reply) == Outcome(<<Lit(rpcReboot)>>, <<reply>>, PlainReturn(reply))

RescueCall(action, reply) ==
    LET command == IF action = DELETE THEN Lit(rpcRescueDelete)
                   ELSE Lit(rpcRescueSave)
    IN  Outcome(<<command>>, <<reply>>, PlainReturn(reply))

\* ioutil.ReadFile answers
ReadFailed == [ok |-> FALSE, data |-> <<>>]
ReadOk(data) == [ok |-> TRUE, data |-> data]
ReadError == [origin |-> "ReadFile", text |-> <<"E", "N", "O", "E", "N",
        "T">>]

\* the templates the switch on format selects
URLTemplate(format) ==
    CASE format = SET -> rpcConfigURLSet
      [] format = TEXT -> rpcConfigURLText
      [] format = XML -> rpcConfigURLXML

StringTemplate(format) ==
    CASE format = SET -> rpcConfigStringSet
      [] format = TEXT -> rpcConfigStringText
      [] format = XML -> rpcConfigStringXML

FileTemplate(format) ==
    CASE format = SET -> rpcConfigFileSet
      [] format = TEXT -> rpcConfigFileText
      [] format = XML -> rpcConfigFileXML

\* The switch of Config (lines 440-502): the command it builds, or the error
\* of the second ReadFile.  path is [type, s, list]; probe and read are the
\* answers of the two ioutil.ReadFile calls.
ConfigCommand(path, format, probe, read) ==
    IF format \notin {SET, TEXT, XML}
    THEN [command |-> <<>>, err |-> NoError]
    ELSE IF path.type = "string"
    THEN LET afterURL == IF Contains(path.s, <<"t", "p", ":", "/", "/">>)
                         THEN Fs(URLTemplate(format), path.s)
                         ELSE <<>>
         IN  IF ~probe.ok
             THEN [command |-> Fs(StringTemplate(format), path.s),
                   err |-> NoError]
             ELSE IF ~read.ok
             THEN [command |-> afterURL, err |-> ReadError]
             ELSE [command |-> Fs(FileTemplate(format), read.data),
                   err |-> NoError]
    ELSE IF path.type = "[]string"
    THEN [command |-> Fs(StringTemplate(format), Join(path.list, <<"\n">>)),
          err |-> NoError]
    ELSE [command |-> <<>>, err |-> NoError]

\* Config (lines 439-523)
ConfigCall(path, format, commit, probe, read, loadReply, commitReply) ==
    LET built == ConfigCommand(path, format, probe, read)
    IN  IF built.err # NoError
        THEN Outcome(<<>>, <<>>, Result(Nil, built.err))
        ELSE IF loadReply.err # NoError
        THEN Outcome(<<built.command>>, <<loadReply>>,
                     Result(Nil, loadReply.err))
        ELSE IF commit
        THEN LET c == CommitCall(commitReply)
                 both == Outcome(<<built.command>> \o c.sent,
                                 <<loadReply>> \o c.replies, c.ret)
             IN  IF c.ret.err # NoError THEN both
                 ELSE IF HasFault(loadReply)
                 THEN [both EXCEPT !.ret = Result(Nil, FirstFault(loadReply))]
                 ELSE both
        ELSE IF HasFault(loadReply)
        THEN Outcome(<<built.command>>, <<loadReply>>,
                     Result(Nil, FirstFault(loadReply)))
        ELSE Outcome(<<built.command>>, <<loadReply>>, Result(Nil, NoError))

\* RollbackConfig (lines 630-654); option is [type |-> "int", n] or
\* [type |-> "string", s]
RollbackConfigCall(option, loadReply, commitReply) ==
    LET command ==
            IF option.type = "string" /\ option.s = RESCUE
            THEN Lit(rpcRescueConfig)
            ELSE IF option.type = "int" THEN Fd(rpcRollbackConfig, option.n)
            ELSE Fs(rpcRollbackConfig, option.s)
    IN  IF loadReply.err # NoError
        THEN Outcome(<<command>>, <<loadReply>>, Result(Nil, loadReply.err))
        ELSE LET c == CommitCall(commitReply)
                 both == Outcome(<<command>> \o c.sent,
                                 <<loadReply>> \o c.replies, c.ret)
             IN  IF c.ret.err # NoError THEN both
                 ELSE IF HasFault(loadReply)
                 THEN [both EXCEPT !.ret = Result(Nil, FirstFault(loadReply))]
                 ELSE both

\* xml.Unmarshal of the newline-stripped directory-list into FileList
FileListOf(data) ==
    [kind  |-> "FileList",
     Path  |-> RemoveAll(data.name, "\n"),
     Files |-> [i \in 1..Len(data.files) |-> RemoveAll(data.files[i], "\n")],
     Error |-> RemoveAll(data.output, "\n")]

FilesReturn(path, reply) ==
    IF reply.err # NoError THEN Result(Nil, reply.err)
    ELSE IF HasFault(reply) THEN Result(Nil, FirstFault(reply))
    ELSE IF reply.Data.root = "" THEN Result(Nil, NewError(errMessage))
    ELSE IF UnmarshalFails(reply.Data, "directory-list")
         THEN Result(Nil, UnmarshalError)
    ELSE LET files == FileListOf(reply.Data)
         IN  IF Len(files.Error) > 0
             THEN Result(Nil, NewError(path \o <<":", " ", "N", "o", " ",
                     "s", "u", "c", "h", " ", "f", "i", "l", "e", " ", "o",
                     "r", " ", "d", "i", "r", "e", "c", "t", "o", "r", "y">>))
             ELSE Result(files, NoError)

\* Files reporting the trimmed directory instead of the requested path
FilesCallReportsDir(path, reply) ==
    LET dir == TrimRight(path, {"/"})
    IN  Outcome(<<Fs(rpcFileList, dir \o <<"/">>)>>, <<reply>>,
                FilesReturn(dir, reply))

\* Files (lines 689-721)
FilesCall(path, reply) ==
    LET dir == TrimRight(path, {"/"})
    IN  Outcome(<<Fs(rpcFileList, dir \o <<"/">>)>>, <<reply>>,
                FilesReturn(path, reply))

(***************************************************************************)
(* Inputs: what callers pass and what the device, the XML decoder and the  *)
(* file system answer.                                                     *)
(***************************************************************************)
Fault(text) == [Message |-> text]

FaultMessages == {<<"d", "e", "n", "i", "e", "d">>, <<"l", "o", "c", "k",
        "e", "d">>}

\* reply.Errors of up to n faults
FaultLists(n) == SeqsUpTo({Fault(m) : m \in FaultMessages}, n)

OkData == [root |-> "ok", multi |-> FALSE]

\* --- <get-software-information/> ---
\* the comment field of a package-information element
Comments ==
    {<<"J", "U", "N", "O", "S", " ", "B", "a", "s", "e", " ", "[", "2", "0",
            ".", "4", "R", "3", ".", "8", "]">>, <<"[", "1", "]", "[", "2",
            "]">>, <<"[", "1", "]", "]">>, <<"J", "U", "N", "O", "S", " ",
            "B", "a", "s", "e">>,
     <<"\n", "[", "1", "]">>, <<"[", "1", "]", "\n", "[", "2", "]">>}

Package(comments) == [SoftwareVersion |-> comments]

PackageInfos ==
    {<<>>, <<Package(<<>>)>>}
    \cup {<<Package(<<c>>)>> : c \in Comments}
    \cup {<<Package(<<c, <<"[", "9", "]">>>>), Package(<<<<"[", "8",
            "]">>>>)>> :
            c \in {<<"[", "1", "]", "[", "2", "]">>, <<"J", "U", "N", "O",
                    "S", " ", "B", "a", "s", "e">>}}

\* host-name and product-model of the engines a device reports
Identities ==
    {[Hostname |-> <<"r", "1">>, Platform |-> <<"m", "x", "9", "6", "0">>],
     [Hostname |-> <<"r", "2">>, Platform |-> <<"S", "r", "x">>]}

Engines ==
    {[Hostname |-> id.Hostname, Platform |-> id.Platform, PackageInfo |-> p] :
        id \in Identities, p \in PackageInfos}

SoftwareInfo(e, marker) ==
    [root |-> "software-information", multi |-> marker, engine |-> e]

MultiResults(items) ==
    [root |-> "multi-routing-engine-results", multi |-> TRUE, items |-> items]

\* the engine of the single-engine fixture and the second engine of the
\* multi-engine fixture
EngineR1 ==
    [Hostname |-> <<"r", "1">>, Platform |-> <<"m", "x", "9", "6", "0">>,
     PackageInfo |-> <<Package(<<<<"J", "U", "N", "O", "S", " ", "B", "a",
             "s", "e", " ", "[", "2", "0", ".", "4", "R", "3", ".", "8",
             "]">>>>)>>]

EngineR2 ==
    [Hostname |-> <<"r", "2">>, Platform |-> <<"S", "r", "x">>,
     PackageInfo |-> <<Package(<<<<"[", "1", "]", "[", "2", "]">>>>)>>]

Dialled(reply) == [dialOk |-> TRUE, reply |-> reply]
DialFailed == [dialOk |-> FALSE, reply |-> ExecFailed]

VersionFixtures ==
    {DialFailed, Dialled(ExecFailed),
     Dialled(Reply(<<>>, MultiResults(<<EngineR1, EngineR2>>)))}

VersionInputs ==
    {DialFailed, Dialled(ExecFailed)}
    \cup {Dialled(Reply(f, OkData)) : f \in FaultLists(MaxFaults) \ {<<>>}}
    \cup {Dialled(Reply(<<>>, d)) :
            d \in {EmptyData, Malformed, OkData,
                   [Malformed EXCEPT !.multi = TRUE]}}
    \cup {Dialled(Reply(<<>>, SoftwareInfo(e, m))) :
            e \in Engines, m \in BOOLEAN}
    \cup {Dialled(Reply(<<>>, MultiResults(items))) :
            items \in SeqsUpTo(Engines, MaxEngines)}

\* --- commit-configuration ---
CommitError(path, element, message) ==
    [Path |-> path, Element |-> element, Message |-> message]

CommitErrors ==
    {CommitError(<<"[", "e", "d", "i", "t", " ", "i", "n", "t", "e", "r",
            "f", "a", "c", "e", "s", "]">>, <<"u", "n", "i", "t">>, <<"\n",
            "s", "y", "n", "t", "a", "x", " ", "e", "r", "r", "o", "r",
            "\n">>),
     CommitError(<<"\n", "[", "e", "d", "i", "t", "]", "\n">>, <<"[", "x",
             "]", "y">>, <<"b", "a", "d", "[", "]">>)}

CommitResults(errors) ==
    [root |-> "commit-results", multi |-> FALSE, errors |-> errors]

CommitReplies ==
    {ExecFailed}
    \cup {Reply(f, d) :
            f \in FaultLists(MaxFaults),
            d \in {EmptyData, Malformed, OkData}
                  \cup {CommitResults(es) :
                          es \in SeqsUpTo(CommitErrors, MaxFaults)}}

CommitFixtures ==
    {ExecFailed, Reply(<<>>, CommitResults(<<>>)),
     Reply(<<>>, CommitResults(<<CommitError(<<"[", "e", "d", "i", "t",
             "]">>, <<"x">>, <<"b", "a", "d">>)>>)),
     Reply(<<Fault(<<"l", "o", "c", "k", "e", "d">>)>>, EmptyData)}

\* --- replies whose data the method does not look at ---
PlainReplies ==
    {ExecFailed, Reply(<<>>, OkData), Reply(<<Fault(<<"d", "e", "n", "i",
            "e", "d">>)>>, EmptyData),
     Reply(<<Fault(<<"d", "e", "n", "i", "e", "d">>), Fault(<<"l", "o", "c",
             "k", "e", "d">>)>>, EmptyData)}

\* --- command, get-configuration, get-commit-information, rollback ---
Output(text) == [root |-> "output", multi |-> FALSE, text |-> text]

CommandReplies ==
    {ExecFailed, Reply(<<>>, EmptyData), Reply(<<>>, Malformed),
     Reply(<<>>, Output(<<"u", "p">>)), Reply(<<Fault(<<"d", "e", "n", "i",
             "e", "d">>)>>, EmptyData),
     Reply(<<Fault(<<"l", "o", "c", "k", "e", "d">>), Fault(<<"d", "e", "n",
             "i", "e", "d">>)>>, Output(<<"u", "p">>))}

History(entries) ==
    [root |-> "commit-information", multi |-> FALSE, entries |-> entries]

HistoryReplies ==
    {ExecFailed, Reply(<<>>, EmptyData), Reply(<<>>, Malformed),
     Reply(<<>>, History(<<>>)), Reply(<<>>, History(<<1, 0>>)),
     Reply(<<Fault(<<"d", "e", "n", "i", "e", "d">>)>>, EmptyData)}

Rollback(text) ==
    [root |-> "rollback-information", multi |-> FALSE, output |-> text]

DiffReplies ==
    {ExecFailed, Reply(<<>>, Rollback(<<"+", "x">>)), Reply(<<>>, OkData),
     Reply(<<Fault(<<"d", "e", "n", "i", "e", "d">>)>>, EmptyData)}

\* --- GetConfig sections: "full", paths of up to n components joined by ">",
\* and paths with empty components ---
Sections(n) ==
    {FULL, <<>>, <<"a", ">">>, <<">", ">", "b">>}
    \cup {Join(c, <<">">>) : c \in SeqsUpTo({<<"a">>, <<"b">>}, n) \ {<<>>}}

GetConfigReplies ==
    {ExecFailed, Reply(<<>>, Output(<<"u", "p">>)),
     Reply(<<Fault(<<"d", "e", "n", "i", "e", "d">>)>>, EmptyData)}

\* --- Config sources ---
StringPath(s) == [type |-> "string", s |-> s, list |-> <<>>]
ListPath(l) == [type |-> "[]string", s |-> <<>>, list |-> l]
OtherPath == [type |-> "int", s |-> <<>>, list |-> <<>>]

\* a source and the answers of the two ioutil.ReadFile calls for it
Source(path, probe, read) == [path |-> path, probe |-> probe, read |-> read]

Literal(path) == Source(path, ReadFailed, ReadFailed)

Sources ==
    {Source(StringPath(s), f.probe, f.read) :
        s \in {<<"f", "t", "p", ":", "/", "/", "h", "/", "r", "1">>, <<"r",
                "1", ".", "c", "o", "n", "f">>, <<"s", "e", "t", " ", "s",
                "y", "s", "t", "e", "m">>},
        f \in {[probe |-> ReadFailed, read |-> ReadFailed],
               [probe |-> ReadOk(<<"s", "e", "t", " ", "f", "i", "l", "e">>),
                       read |-> ReadOk(<<"s", "e", "t", " ", "f", "i", "l",
                       "e">>)],
               [probe |-> ReadOk(<<"s", "e", "t", " ", "f", "i", "l", "e">>),
                       read |-> ReadFailed]}}
    \cup {Literal(ListPath(<<<<"s", "e", "t", " ", "a">>, <<"s", "e", "t",
            " ", "b">>>>)), Literal(ListPath(<<>>)),
          Literal(OtherPath)}

\* the commit flag of Config and the reply its Commit call gets
NoCommit == [commit |-> FALSE, reply |-> ExecFailed]
CommitModes(rs) == {NoCommit} \cup {[commit |-> TRUE, reply |-> r] : r \in rs}

LoadReplies ==
    {ExecFailed, Reply(<<>>, OkData),
     Reply(<<Fault(<<"d", "e", "n", "i", "e", "d">>), Fault(<<"l", "o", "c",
             "k", "e", "d">>)>>, EmptyData)}

IntOption(n) == [type |-> "int", n |-> n, s |-> <<>>]
StringOption(s) == [type |-> "string", n |-> 0, s |-> s]

\* --- file-list ---
DirectoryList(name, files, output) ==
    [root |-> "directory-list", multi |-> FALSE, name |-> name,
     files |-> files, output |-> output]

FileReplies ==
    {ExecFailed, Reply(<<>>, EmptyData), Reply(<<>>, Malformed),
     Reply(<<>>, OkData), Reply(<<Fault(<<"d", "e", "n", "i", "e", "d">>)>>,
             EmptyData)}
    \cup {Reply(<<>>, DirectoryList(<<"/", "v">>, fs, out)) :
            fs \in {<<<<"a", "\n">>, <<"b">>>>},
            out \in StringsOver({"\n", "o"}, MaxOutputLen)}

\* The inputs every specification draws the calls it does not study from.
Fixtures ==
    [version        |-> VersionFixtures,
     cmds           |-> {<<"s", "h", "o", "w", " ", "v", "e", "r", "s", "i",
             "o", "n">>},
     cmdFormats     |-> {TEXT},
     commandReplies |-> {Reply(<<>>, Output(<<"u", "p">>))},
     historyReplies |-> {Reply(<<>>, History(<<1, 0>>))},
     commitReplies  |-> {Reply(<<>>, CommitResults(<<>>))},
     times          |-> {<<"2", "3", ":", "0", "0">>},
     delays         |-> {5},
     compares       |-> {1},
     diffReplies    |-> {Reply(<<>>, Rollback(<<"+", "x">>))},
     sections       |-> {FULL},
     getFormats     |-> {XML},
     getReplies     |-> {Reply(<<>>, Output(<<"u", "p">>))},
     sources        |-> {Literal(StringPath(<<"s", "e", "t", " ", "s", "y",
             "s", "t", "e", "m">>))},
     syntaxes       |-> {SET},
     commitModes    |-> {NoCommit},
     loadReplies    |-> {Reply(<<>>, OkData)},
     loadCommits    |-> {Reply(<<>>, CommitResults(<<>>))},
     options        |-> {IntOption(1)},
     plainReplies   |-> {Reply(<<>>, OkData)},
     rescueActions  |-> {SAVE},
     paths          |-> {<<"/", "v">>},
     fileReplies    |-> {Reply(<<>>, DirectoryList(<<"/", "v">>, <<<<"a">>>>,
             <<>>))}]

(***************************************************************************)
(* The state machine: one session, constructed once by NewSession, then    *)
(* any sequence of calls on it.                                            *)
(***************************************************************************)
Init ==
    /\ proc = "running"
    /\ session = NoSession
    /\ op = "none"
    /\ args = [none |-> TRUE]
    /\ sent = <<>>
    /\ replies = <<>>
    /\ ret = Result(Nil, NoError)
    /\ calls = 0

\* NewSession(host, user, password)
NewSession(in) ==
    /\ proc = "running"
    /\ session = NoSession
    /\ \E v \in in.version :
        LET r == NewSessionResult(v.dialOk, v.reply)
        IN  /\ proc' = IF r.outcome = "returned" THEN "running" ELSE r.outcome
            /\ session' = r.session
            /\ op' = "NewSession"
            /\ args' = [dialOk |-> v.dialOk]
            /\ sent' = IF v.dialOk THEN <<Lit(rpcVersion)>> ELSE <<>>
            /\ replies' = IF v.dialOk THEN <<v.reply>> ELSE <<>>
            /\ ret' = Result(IF r.session = NoSession THEN Nil ELSE r.session,
                             r.err)
            /\ UNCHANGED calls

\* a method can be called once NewSession has returned a *Junos
Ready == proc = "running" /\ session # NoSession /\ calls < MaxCalls

\* a method call on the session: the receiver's fields are not assigned
Call(name, a, c) ==
    /\ op' = name
    /\ args' = a
    /\ sent' = c.sent
    /\ replies' = c.replies
    /\ ret' = c.ret
    /\ calls' = calls + 1
    /\ UNCHANGED <<proc, session>>

RunCommand(in) ==
    /\ Ready
    /\ \E cmd \in in.cmds, format \in in.cmdFormats, r \in in.commandReplies :
           Call("RunCommand", [cmd |-> cmd, format |-> format],
                RunCommandCall(cmd, format, r))

CommitHistory(in) ==
    /\ Ready
    /\ \E r \in in.historyReplies :
           Call("CommitHistory", [none |-> TRUE], CommitHistoryCall(r))

Commit(in) ==
    /\ Ready
    /\ \E r \in in.commitReplies : Call("Commit", [none |-> TRUE], CommitCall(r))

CommitAt(in) ==
    /\ Ready
    /\ \E time \in in.times, r \in in.commitReplies :
           Call("CommitAt", [time |-> time], CommitAtCall(time, r))

CommitCheck(in) ==
    /\ Ready
    /\ \E r \in in.commitReplies :
           Call("CommitCheck", [none |-> TRUE], CommitCheckCall(r))

CommitConfirm(in) ==
    /\ Ready
    /\ \E delay \in in.delays, r \in in.commitReplies :
           Call("CommitConfirm", [delay |-> delay], CommitConfirmCall(delay, r))

ConfigDiff(in) ==
    /\ Ready
    /\ \E compare \in in.compares, r \in in.diffReplies :
           Call("ConfigDiff", [compare |-> compare], ConfigDiffCall(compare, r))

GetConfig(in) ==
    /\ Ready
    /\ \E section \in in.sections, format \in in.getFormats, r \in in.getReplies :
           Call("GetConfig", [section |-> section, format |-> format],
                GetConfigCall(section, format, r))

Config(in) ==
    /\ Ready
    /\ \E src \in in.sources, format \in in.syntaxes, cm \in in.commitModes,
          lr \in in.loadReplies :
           Call("Config",
                [path |-> src.path, format |-> format, commit |-> cm.commit,
                 probe |-> src.probe, read |-> src.read],
                ConfigCall(src.path, format, cm.commit, src.probe, src.read,
                           lr, cm.reply))

Lock(in) ==
    /\ Ready
    /\ \E r \in in.plainReplies : Call("Lock", [none |-> TRUE], LockCall(r))

Rescue(in) ==
    /\ Ready
    /\ \E action \in in.rescueActions, r \in in.plainReplies :
           Call("Rescue", [action |-> action], RescueCall(action, r))

RollbackConfig(in) ==
    /\ Ready
    /\ \E option \in in.options, lr \in in.loadReplies, cr \in in.loadCommits :
           Call("RollbackConfig", [option |-> option],
                RollbackConfigCall(option, lr, cr))

Unlock(in) ==
    /\ Ready
    /\ \E r \in in.plainReplies : Call("Unlock", [none |-> TRUE], UnlockCall(r))

Reboot(in) ==
    /\ Ready
    /\ \E r \in in.plainReplies : Call("Reboot", [none |-> TRUE], RebootCall(r))

Files(in) ==
    /\ Ready
    /\ \E path \in in.paths, r \in in.fileReplies :
           Call("Files", [path |-> path], FilesCall(path, r))

NextOver(in) ==
    \/ NewSession(in)
    \/ RunCommand(in)
    \/ CommitHistory(in)
    \/ Commit(in)
    \/ CommitAt(in)
    \/ CommitCheck(in)
    \/ CommitConfirm(in)
    \/ ConfigDiff(in)
    \/ GetConfig(in)
    \/ Config(in)
    \/ Lock(in)
    \/ Rescue(in)
    \/ RollbackConfig(in)
    \/ Unlock(in)
    \/ Reboot(in)
    \/ Files(in)

\* Spec studies the queries: RunCommand, CommitHistory, GetConfig and Files.
QueryInputs ==
    [Fixtures EXCEPT
        !.cmds = {<<"s", "h", "o", "w", " ", "v", "e", "r", "s", "i", "o",
                "n">>, <<>>},
        !.cmdFormats = {TEXT, XML, <<"j", "s", "o", "n">>},
        !.commandReplies = CommandReplies,
        !.historyReplies = HistoryReplies,
        !.sections = Sections(MaxDepth),
        !.getFormats = {TEXT, XML},
        !.getReplies = GetConfigReplies,
        !.paths = StringsOver({"/", "v"}, MaxPathLen),
        !.fileReplies = FileReplies]

Next == NextOver(QueryInputs)

Spec == Init /\ [][Next]_vars

\* SpecResolver studies NewSession.
ResolverInputs == [Fixtures EXCEPT !.version = VersionInputs]

NextResolver == NextOver(ResolverInputs)

SpecResolver == Init /\ [][NextResolver]_vars

\* SpecCommit studies Commit, CommitAt, CommitCheck and CommitConfirm.
CommitInputs ==
    [Fixtures EXCEPT
        !.commitReplies = CommitReplies,
        !.diffReplies = DiffReplies,
        !.plainReplies = PlainReplies]

NextCommit == NextOver(CommitInputs)

SpecCommit == Init /\ [][NextCommit]_vars

\* SpecConfig studies Config and RollbackConfig.
ConfigInputs ==
    [Fixtures EXCEPT
        !.sources = Sources,
        !.syntaxes = {SET, TEXT, XML, <<"j", "s", "o", "n">>},
        !.commitModes = CommitModes(CommitFixtures),
        !.loadReplies = LoadReplies,
        !.loadCommits = CommitFixtures,
        !.options = {IntOption(1), StringOption(RESCUE),
                StringOption(<<"x">>)}]

NextConfig == NextOver(ConfigInputs)

SpecConfig == Init /\ [][NextConfig]_vars

(***************************************************************************)
(* Properties.                                                             *)
(***************************************************************************)
Methods ==
    {"RunCommand", "CommitHistory", "Commit", "CommitAt", "CommitCheck",
     "CommitConfirm", "ConfigDiff", "GetConfig", "Config", "Lock", "Rescue",
     "RollbackConfig", "Unlock", "Reboot", "Files"}

\* the reply of the last call's first (or only) request is a reply of the
\* device: Exec gave no error
Answered == replies # <<>> /\ replies[1].err = NoError

\* C1: whenever NewSession has returned a Session, RoutingEngines equals the
\* length of Platform, in the state NewSession leaves and in every state a
\* later sequence of method calls reaches.
C1_EnginesMatchPlatform ==
    /\ session # NoSession => session.RoutingEngines = Len(session.Platform)
    /\ (op = "NewSession" /\ ret.val # Nil) =>
           /\ ret.val = session
           /\ ret.val.RoutingEngines = Len(ret.val.Platform)

\* a two-engine session on which the last of MaxCalls method calls has just
\* returned
C1_Witness ==
    /\ session # NoSession
    /\ session.RoutingEngines = 2
    /\ op \in Methods
    /\ calls = MaxCalls

\* C5: NewSession surfaces every failure as a returned error and never ends
\* the process: after NewSession the process is running, and either a Session
\* or a non-nil error was returned.
C5_FailuresAreReturned ==
    op = "NewSession" =>
        /\ proc = "running"
        /\ (session = NoSession => ret.err # NoError)

\* the well-formed software-information engines of a reply
WellFormed(items) == \A i \in 1..Len(items) : EngineOk(items[i])

C2_NoCommitAfterLoadFault ==
    (/\ \/ op = "Config" /\ args.commit
        \/ op = "RollbackConfig"
     /\ Answered
     /\ HasFault(replies[1])) =>
        /\ ret.err = FirstFault(replies[1])
        /\ Len(sent) = 1

\* C3: for every syntax in {set, text, xml} and every single-string source,
\* Config sends the payload of the source's class: the URL template with the
\* string in the url attribute when the string contains "tp://", otherwise
\* the file's contents in the element body when the string is a readable
\* file path, otherwise the string itself in the element body.
C3_SourceClassified ==
    (/\ op = "Config"
     /\ args.format \in {SET, TEXT, XML}
     /\ args.path.type = "string"
     /\ sent # <<>>) =>
        sent[1] =
            IF Contains(args.path.s, <<"t", "p", ":", "/", "/">>)
            THEN Fs(URLTemplate(args.format), args.path.s)
            ELSE IF args.probe.ok
            THEN Fs(FileTemplate(args.format), args.probe.data)
            ELSE Fs(StringTemplate(args.format), args.path.s)

\* C4: when the reply has no transport error and no fault but empty data,
\* RunCommand (either format) and CommitHistory return a non-nil error.
C4_EmptyDataIsAnError ==
    (/\ op \in {"RunCommand", "CommitHistory"}
     /\ Answered
     /\ ~HasFault(replies[1])
     /\ replies[1].Data.root = "") =>
        ret.err # NoError

\* the pieces of a GetConfig command
Header(format) == Fs("<get-configuration format=\"%s\"><configuration>", format)
Trailer == Lit("</configuration></get-configuration>")
Open(name) == Fs("<%s>", name)
SelfClosing(name) == Fs("<%s/>", name)
Close(name) == Fs("</%s>", name)

\* C7: GetConfig builds its request from the section path.  For a path of
\* k >= 1 components separated by ">" the payload opens the first k-1
\* components as nested tags in path order, emits the last as a self-closing
\* tag and closes the k-1 opened tags in reverse order; for section "full"
\* the configuration element is empty; in both cases the format attribute is
\* the requested format.
C7_SectionNesting ==
    op = "GetConfig" =>
        LET comps == Split(args.section, ">")
            k == Len(comps)
            command == sent[1]
        IN  /\ Len(sent) = 1
            /\ SubSeq(command, 1, 1) = Header(args.format)
            /\ IF args.section = FULL
               THEN command = Header(args.format) \o Trailer
               ELSE /\ k >= 1
                    /\ Len(command) = 2 * k + 1
                    /\ \A i \in 1..(k - 1) :
                           /\ <<command[1 + i]>> = Open(comps[i])
                           /\ <<command[1 + k + i]>> = Close(comps[k - i])
                    /\ <<command[1 + k]>> = SelfClosing(comps[k])
                    /\ <<command[2 * k + 1]>> = Trailer

\* GetConfig has been called with a three-level path whose opened tags differ
C7_Witness ==
    /\ op = "GetConfig"
    /\ args.section = <<"a", ">", "b", ">", "a">>
    /\ args.format = TEXT

CommitMethods == {"Commit", "CommitAt", "CommitCheck", "CommitConfirm"}

\* the characters strings.Trim(s, "[\r\n]") removes from both ends
Brackets == {"[", "\r", "\n", "]"}

\* the error of a commit-results entry: one text holding the entry's path,
\* element and message, each without surrounding brackets and line breaks
RpcErrorReported(m, err) ==
    /\ err.origin = "errors.New"
    /\ err.text = <<"[">> \o Trim(m.Path, Brackets) \o <<"]", "\n", " ", " ",
            " ", " ">>
                  \o Trim(m.Element, Brackets) \o <<"\n", "E", "r", "r", "o",
                          "r", ":", " ">>
                  \o Trim(m.Message, Brackets)
    /\ Contains(err.text, Trim(m.Path, Brackets))
    /\ Contains(err.text, Trim(m.Message, Brackets))

\* C8 as stated: for Commit, CommitAt, CommitCheck and CommitConfirm, a
\* fault-free commit-results reply with an rpc-error gives the error of the
\* first rpc-error; a reply with faults gives the first fault's message; a
\* reply with neither a fault nor an rpc-error gives no error.
C8_NoFaultNoRpcErrorIsSuccess ==
    (op \in CommitMethods /\ Answered) =>
        LET r == replies[1]
        IN  IF HasFault(r) THEN ret.err = FirstFault(r)
            ELSE IF r.Data.root = "commit-results" /\ r.Data.errors # <<>>
            THEN RpcErrorReported(r.Data.errors[1], ret.err)
            ELSE ret.err = NoError

\* C8 (amended): for Commit, CommitAt, CommitCheck and CommitConfirm, a reply
\* with faults gives the first fault's message and the data is not examined;
\* a fault-free commit-results reply gives the error of its first rpc-error,
\* or no error when it has none; fault-free data that does not unmarshal as
\* commit-results gives the unmarshal error.
C8_CommitErrors ==
    (op \in CommitMethods /\ Answered) =>
        LET r == replies[1]
        IN  IF HasFault(r) THEN ret.err = FirstFault(r)
            ELSE IF r.Data.root = "commit-results"
            THEN IF r.Data.errors # <<>>
                 THEN RpcErrorReported(r.Data.errors[1], ret.err)
                 ELSE ret.err = NoError
            ELSE ret.err = UnmarshalError

\* a commit method got a fault-free commit-results reply of two different
\* rpc-errors whose path and message carry brackets and line breaks
C8_Witness ==
    /\ op \in CommitMethods
    /\ Answered
    /\ ~HasFault(replies[1])
    /\ replies[1].Data.root = "commit-results"
    /\ Len(replies[1].Data.errors) = 2
    /\ replies[1].Data.errors[1] # replies[1].Data.errors[2]
    /\ Trim(replies[1].Data.errors[1].Path, Brackets)
           # replies[1].Data.errors[1].Path
    /\ Trim(replies[1].Data.errors[1].Message, Brackets)
           # replies[1].Data.errors[1].Message

\* a fault-free commit-results reply without rpc-errors
CleanCommit(r) ==
    /\ r.err = NoError
    /\ ~HasFault(r)
    /\ r.Data.root = "commit-results"
    /\ r.Data.errors = <<>>

\* C9: CommitCheck is idempotent.  Every CommitCheck call sends the
\* commit-configuration request with the check element and nothing else, and
\* changes no field of the Session; a CommitCheck that follows a CommitCheck
\* and is answered the same way sends the same payload and returns the same
\* result, which is no error when the answer is a clean commit-results.
C9_CommitCheckIdempotent ==
    [][(op' = "CommitCheck" /\ calls' = calls + 1) =>
          /\ sent' = <<Lit(rpcCommitCheck)>>
          /\ session' = session
          /\ proc' = proc
          /\ CleanCommit(replies'[1]) => ret'.err = NoError
          /\ (op = "CommitCheck" /\ replies' = replies) =>
                 (sent' = sent /\ ret' = ret)]_vars

\* the last of MaxCalls calls was a CommitCheck answered by a clean
\* commit-results
C9_Witness ==
    /\ op = "CommitCheck"
    /\ calls = MaxCalls
    /\ CleanCommit(replies[1])
    /\ ret.err = NoError

\* the path of the file-list request: the requested path without its trailing
\* slashes, then one slash
NormalisedPath(p, path) ==
    /\ p # <<>>
    /\ p[Len(p)] = "/"
    /\ Len(p) >= 2 => p[Len(p) - 1] # "/"
    /\ Len(p) - 1 <= Len(path)
    /\ SubSeq(p, 1, Len(p) - 1) = SubSeq(path, 1, Len(p) - 1)
    /\ \A i \in Len(p)..Len(path) : path[i] = "/"

NoSuchFile(path) == NewError(path \o <<":", " ", "N", "o", " ", "s", "u",
        "c", "h", " ", "f", "i", "l", "e", " ", "o", "r", " ", "d", "i", "r",
        "e", "c", "t", "o", "r", "y">>)

\* a fault-free directory-list reply
Listed == Answered /\ ~HasFault(replies[1]) /\ replies[1].Data.root = "directory-list"

\* C10 as stated: Files sends the normalised path; a fault-free directory-list
\* reply with a non-empty output field gives a nil FileList and an error that
\* names the path as requested; a FileList is returned only when there is no
\* output field.
C10_OutputFieldIsAnError ==
    op = "Files" =>
        /\ Len(sent) = 1 /\ Len(sent[1]) = 1
        /\ sent[1][1].f = rpcFileList
        /\ NormalisedPath(sent[1][1].s, args.path)
        /\ (Listed /\ replies[1].Data.output # <<>>) =>
               (ret.val = Nil /\ ret.err = NoSuchFile(args.path))
        /\ ret.val # Nil => (Listed /\ replies[1].Data.output = <<>>)

\* C10 (amended): Files sends the normalised path; a fault-free directory-list
\* reply whose output field holds more than line breaks gives a nil FileList
\* and an error that names the path as requested; a FileList is returned only
\* when the output field is absent, empty or made of line breaks only.
C10_FilesOutput ==
    op = "Files" =>
        /\ Len(sent) = 1 /\ Len(sent[1]) = 1
        /\ sent[1][1].f = rpcFileList
        /\ NormalisedPath(sent[1][1].s, args.path)
        /\ (Listed /\ \E i \in 1..Len(replies[1].Data.output) :
                          replies[1].Data.output[i] # "\n") =>
               (ret.val = Nil /\ ret.err = NoSuchFile(args.path))
        /\ ret.val # Nil =>
               /\ Listed
               /\ \A i \in 1..Len(replies[1].Data.output) :
                      replies[1].Data.output[i] = "\n"

\* Files was called with a path ending in two slashes and the directory-list
\* reply carried an output field
C10_Witness ==
    /\ op = "Files"
    /\ args.path = <<"v", "/", "/">>
    /\ Listed
    /\ replies[1].Data.output = <<"o", "\n">>
    /\ ret.val = Nil

\* the load-configuration templates of Config
LoadTemplates ==
    {rpcConfigFileSet, rpcConfigFileText, rpcConfigFileXML,
     rpcConfigURLSet, rpcConfigURLText, rpcConfigURLXML,
     rpcConfigStringSet, rpcConfigStringText, rpcConfigStringXML}

\* C11: the request Config executes against the session is a non-empty
\* load-configuration payload, for any format value (including one outside
\* {set, text, xml}) and any source value (including one that is neither a
\* string nor a list of strings): Config never sends an empty payload.
C11_ConfigPayloadNonEmpty ==
    (op = "Config" /\ sent # <<>>) =>
        /\ sent[1] # <<>>
        /\ sent[1][1].f \in LoadTemplates

====
